---- MODULE Spec2Model ----
(***************************************************************************)
(* State-machine model of parts of the MONAI toolkit:                      *)
(*   - PersistentDataset (disk memoisation of transform outputs)           *)
(*   - BundleAlgo / BundleGen (bundle export and training launch)          *)
(*   - TransformInverter and _BatchInverseDataset (inverse transforms)     *)
(*   - DecathlonDataset (cross-validation split of the datalist)           *)
(*   - MedNISTDataset (random split of the image folders into sections)    *)
(*   - NiftiSaver (file names of the saved data)                           *)
(*   - box_utils (box modes, their dimension and their conversion)         *)
(*   - RandGaussianSharpend (random sigmas of the two gaussian kernels)    *)
(* Every subsystem has its own variables and its own specification; the    *)
(* variables of the other subsystems stay at their initial "off" value.    *)
(***************************************************************************)
EXTENDS Integers, Sequences, FiniteSets, TLC

VARIABLES
    \* ---- PersistentDataset ----
    pd_transform,      \* the transform list both datasets are built with
    pd_cache_n_trans,  \* number of leading transforms whose output is cached
    pd_hash_func,      \* "pickle" (default) or "json"
    pd_items,          \* the caller's list of source items (mutable objects)
    pd_cache_dir,      \* files of the cache directory: hash key -> stored item
    pd_made,           \* set of dataset ids constructed so far
    pd_out,            \* pd_out[d][i]: <<>> or <<item returned by d[i]>>
    pd_hit,            \* pd_hit[d][i]: the read of d[i] was served from the cache
    \* ---- BundleAlgo.export_to_disk ----
    ba_algo,           \* one BundleAlgo instance (its fields)
    ba_fs,             \* the file system: bundle path -> directory content
    ba_last,           \* <<>> or <<the last operation and what it called>>
    \* ---- BundleGen ----
    bg_algos,          \* BundleGen.algos
    bg_data_stats_filename,
    bg_data_src_cfg_filename,
    bg_history,        \* BundleGen.history
    bg_fs,             \* the file system under the output folders
    bg_last,           \* <<>> or <<arguments and context of the last generate call>>
    \* ---- BundleAlgo.train ----
    tr_train_params,   \* the caller's train_params: <<>> (None) or <<dict>>
    tr_device_count,   \* torch.cuda.device_count()
    tr_environ,        \* CUDA_VISIBLE_DEVICES of os.environ: <<>> (unset) or <<list>>
    tr_last,           \* <<>> or <<record of the last train call>>
    \* ---- TransformInverter ----
    iv_handler,        \* the handler's fields: output_keys, batch_keys, nearest_interp
    iv_batch,          \* engine.state.batch: key -> value
    iv_output,         \* engine.state.output: key -> value
    iv_last,           \* <<>> or <<record of the handler's last call>>
    \* ---- _BatchInverseDataset ----
    bi_data,           \* self.data: the decollated items, index -> dict
    bi_keys,           \* self.keys: <<>> (None) or the tuple of keys
    bi_pad_collation_used,
    bi_last,           \* <<>> or <<record of the last __getitem__ call>>
    \* ---- DecathlonDataset ----
    dc_args,           \* task, seed, nsplits, fold and the sizes of the json datalists
    dc_env,            \* the file system: root_dir and the dataset directory
    dc_training,       \* <<>> or <<data of a section="training" dataset>>
    dc_validation,     \* <<>> or <<data of a section="validation" dataset>>
    dc_last,           \* <<>> or <<record of the last constructor call>>
    \* ---- MedNISTDataset ----
    mn_args,           \* val_frac, test_frac of the constructor calls
    mn_env,            \* the file system: root_dir and the MedNIST folder
    mn_last,           \* <<>> or <<record of the last constructor call>>
    \* ---- NiftiSaver ----
    ns_data_index,     \* self._data_index
    ns_written,        \* the files written so far, in order
    ns_calls,          \* number of save / save_batch calls made
    \* ---- box_utils ----
    bx_heap,           \* memory: buffer id -> the rows of the array stored there
    bx_bbox,           \* the caller's bbox: its container type and its buffer
    bx_last,           \* <<>> or <<record of the last call>>
    \* ---- RandGaussianSharpend ----
    gs_obj,            \* the transform's fields
    gs_calls,          \* number of __call__ made on it
    gs_last            \* <<>> or <<the sigmas drawn by the last call>>

vars_pd == <<pd_transform, pd_cache_n_trans, pd_hash_func, pd_items,
             pd_cache_dir, pd_made, pd_out, pd_hit>>

vars_ba == <<ba_algo, ba_fs, ba_last>>

vars_bg == <<bg_algos, bg_data_stats_filename, bg_data_src_cfg_filename,
             bg_history, bg_fs, bg_last>>

vars_tr == <<tr_train_params, tr_device_count, tr_environ, tr_last>>

vars_iv == <<iv_handler, iv_batch, iv_output, iv_last>>

vars_bi == <<bi_data, bi_keys, bi_pad_collation_used, bi_last>>

vars_dc == <<dc_args, dc_env, dc_training, dc_validation, dc_last>>

vars_mn == <<mn_args, mn_env, mn_last>>

vars_ns == <<ns_data_index, ns_written, ns_calls>>

vars_bx == <<bx_heap, bx_bbox, bx_last>>

vars_gs == <<gs_obj, gs_calls, gs_last>>

vars == <<vars_pd, vars_ba, vars_bg, vars_tr, vars_iv, vars_bi, vars_dc,
          vars_mn, vars_ns, vars_bx, vars_gs>>

\* the value the variables of a subsystem keep while another one runs
PDOff ==
    /\ pd_transform = <<>> /\ pd_cache_n_trans = 0 /\ pd_hash_func = "pickle"
    /\ pd_items = <<>> /\ pd_cache_dir = <<>> /\ pd_made = {}
    /\ pd_out = <<>> /\ pd_hit = <<>>

BAOff == ba_algo = <<>> /\ ba_fs = <<>> /\ ba_last = <<>>

BGOff ==
    /\ bg_algos = <<>> /\ bg_data_stats_filename = "None"
    /\ bg_data_src_cfg_filename = "None"
    /\ bg_history = <<>> /\ bg_fs = <<>> /\ bg_last = <<>>


TROff ==
    /\ tr_train_params = <<>> /\ tr_device_count = 0
    /\ tr_environ = <<>> /\ tr_last = <<>>

IVOff == iv_handler = <<>> /\ iv_batch = <<>> /\ iv_output = <<>> /\ iv_last = <<>>

BIOff ==
    /\ bi_data = <<>> /\ bi_keys = <<>>
    /\ bi_pad_collation_used = FALSE /\ bi_last = <<>>

DCOff == dc_args = <<>> /\ dc_env = <<>> /\ dc_training = <<>> /\ dc_validation = <<>> /\ dc_last = <<>>

MNOff == mn_args = <<>> /\ mn_env = <<>> /\ mn_last = <<>>

NSOff == ns_data_index = 0 /\ ns_written = <<>> /\ ns_calls = 0

BXOff == bx_heap = <<>> /\ bx_bbox = <<>> /\ bx_last = <<>>

GSOff == gs_obj = <<>> /\ gs_calls = 0 /\ gs_last = <<>>

NotPD == <<vars_ba, vars_bg, vars_tr, vars_iv, vars_bi, vars_dc, vars_mn,
         vars_ns, vars_bx, vars_gs>>
NotBA == <<vars_pd, vars_bg, vars_tr, vars_iv, vars_bi, vars_dc, vars_mn,
         vars_ns, vars_bx, vars_gs>>
NotBG == <<vars_pd, vars_ba, vars_tr, vars_iv, vars_bi, vars_dc, vars_mn,
         vars_ns, vars_bx, vars_gs>>
NotTR == <<vars_pd, vars_ba, vars_bg, vars_iv, vars_bi, vars_dc, vars_mn,
         vars_ns, vars_bx, vars_gs>>
NotIV == <<vars_pd, vars_ba, vars_bg, vars_tr, vars_bi, vars_dc, vars_mn,
         vars_ns, vars_bx, vars_gs>>
NotBI == <<vars_pd, vars_ba, vars_bg, vars_tr, vars_iv, vars_dc, vars_mn,
         vars_ns, vars_bx, vars_gs>>
NotDC == <<vars_pd, vars_ba, vars_bg, vars_tr, vars_iv, vars_bi, vars_mn,
         vars_ns, vars_bx, vars_gs>>
NotMN == <<vars_pd, vars_ba, vars_bg, vars_tr, vars_iv, vars_bi, vars_dc,
         vars_ns, vars_bx, vars_gs>>
NotNS == <<vars_pd, vars_ba, vars_bg, vars_tr, vars_iv, vars_bi, vars_dc,
         vars_mn, vars_bx, vars_gs>>
NotBX == <<vars_pd, vars_ba, vars_bg, vars_tr, vars_iv, vars_bi, vars_dc,
         vars_mn, vars_ns, vars_gs>>
NotGS == <<vars_pd, vars_ba, vars_bg, vars_tr, vars_iv, vars_bi, vars_dc,
         vars_mn, vars_ns, vars_bx>>

OffButPD == BAOff /\ BGOff /\ TROff /\ IVOff /\ BIOff /\ DCOff /\ MNOff
    /\ NSOff /\ BXOff /\ GSOff
OffButBA == PDOff /\ BGOff /\ TROff /\ IVOff /\ BIOff /\ DCOff /\ MNOff
    /\ NSOff /\ BXOff /\ GSOff
OffButBG == PDOff /\ BAOff /\ TROff /\ IVOff /\ BIOff /\ DCOff /\ MNOff
    /\ NSOff /\ BXOff /\ GSOff
OffButTR == PDOff /\ BAOff /\ BGOff /\ IVOff /\ BIOff /\ DCOff /\ MNOff
    /\ NSOff /\ BXOff /\ GSOff
OffButIV == PDOff /\ BAOff /\ BGOff /\ TROff /\ BIOff /\ DCOff /\ MNOff
    /\ NSOff /\ BXOff /\ GSOff
OffButBI == PDOff /\ BAOff /\ BGOff /\ TROff /\ IVOff /\ DCOff /\ MNOff
    /\ NSOff /\ BXOff /\ GSOff
OffButDC == PDOff /\ BAOff /\ BGOff /\ TROff /\ IVOff /\ BIOff /\ MNOff
    /\ NSOff /\ BXOff /\ GSOff
OffButMN == PDOff /\ BAOff /\ BGOff /\ TROff /\ IVOff /\ BIOff /\ DCOff
    /\ NSOff /\ BXOff /\ GSOff
OffButNS == PDOff /\ BAOff /\ BGOff /\ TROff /\ IVOff /\ BIOff /\ DCOff
    /\ MNOff /\ BXOff /\ GSOff
OffButBX == PDOff /\ BAOff /\ BGOff /\ TROff /\ IVOff /\ BIOff /\ DCOff
    /\ MNOff /\ NSOff /\ GSOff
OffButGS == PDOff /\ BAOff /\ BGOff /\ TROff /\ IVOff /\ BIOff /\ DCOff
    /\ MNOff /\ NSOff /\ BXOff

(***************************************************************************)
(* Bounds of the model.                                                    *)
(***************************************************************************)
MaxTrans  == 2     \* longest transform list
MaxOffset == 2     \* ShiftIntensityd offsets are 1..MaxOffset
NumItems  == 2     \* number of source items
MaxAlgos  == 2     \* most algorithms a BundleGen holds
MaxFold   == 2     \* largest num_fold passed to generate
MaxGenerate == 2   \* most generate calls on one BundleGen
MaxDevices == 2    \* most devices in a list, and most devices of the machine
MaxReturnCode == 2 \* largest exit code of the training subprocess
MaxPairs  == 2     \* most (output_key, batch_key) pairs of a TransformInverter
BatchSize == 2     \* items in a batch
MaxStack  == 2     \* most applied transforms recorded for a key
MaxSize   == 2     \* largest spatial size of an image
MaxLength == 4     \* most items of the labelled training datalist
MaxSeed   == 1     \* seeds are 0..MaxSeed
MaxSplits == 3     \* largest nsplits

(***************************************************************************)
(* PersistentDataset                                                       *)
(***************************************************************************)
Datasets == {1, 2}

\* items = [[list(range(i))] for i in range(NumItems)]; the transform is mapped
\* over the outer list, so the object a transform sees is list(range(i)).
RECURSIVE RangeList(_)
RangeList(n) == IF n = 0 THEN <<>> ELSE Append(RangeList(n - 1), n - 1)

SourceItems == [i \in 0..(NumItems - 1) |-> RangeList(i)]

\* np.pi, to the nearest integer
Pi == 3

Xforms == {[kind |-> "inplace", offset |-> 0]}
            \cup {[kind |-> "shift", offset |-> o] : o \in 1..MaxOffset}

RECURSIVE SeqsUpTo(_, _)
SeqsUpTo(S, n) ==
    IF n = 0 THEN {<<>>}
    ELSE LET shorter == SeqsUpTo(S, n - 1)
         IN shorter \cup {Append(s, x) : s \in {t \in shorter : Len(t) = n - 1}, x \in S}

\* _InplaceXform.__call__: changes the object it is given and returns it
InplaceXform(item) ==
    IF Len(item) > 0 THEN [item EXCEPT ![1] = item[1] + Pi] ELSE Append(item, 1)

\* ShiftIntensityd: returns a new object, every intensity moved by offset
ShiftIntensity(item, offset) == [k \in 1..Len(item) |-> item[k] + offset]

\* Apply the transforms ts in order to the object holding cur. aliased says
\* whether that object is still the object the run started with; orig is the
\* content of that starting object. Result: the returned item, whether it is
\* the starting object, and the final content of the starting object.
RECURSIVE ApplyTransforms(_, _, _, _)
ApplyTransforms(ts, cur, aliased, orig) ==
    IF ts = <<>> THEN [out |-> cur, aliased |-> aliased, orig |-> orig]
    ELSE IF Head(ts).kind = "inplace"
         THEN LET v == InplaceXform(cur)
              IN ApplyTransforms(Tail(ts), v, aliased, IF aliased THEN v ELSE orig)
         ELSE ApplyTransforms(Tail(ts), ShiftIntensity(cur, Head(ts).offset), FALSE, orig)

\* the hash functions name the cache file after the content of the source item
HashKey(h, item) == <<h, item>>

PreTransforms(ts, n) == SubSeq(ts, 1, n)
PostTransforms(ts, n) == SubSeq(ts, n + 1, Len(ts))

\* at a cache miss the cached transforms run on deepcopy(item): is that object
\* the caller's source object?
NoDeepCopy == TRUE
MissObjectIsSource == FALSE

\* what a cache miss writes to the cache file: the item after the first
\* cache_n_trans transforms, before the remaining ones run
StoreFinal(pre, final) == final
StoredItem(pre, final) == pre

\* _transform(index) for source object content src: the returned item, the
\* cache directory afterwards and the content of the source object afterwards
ReadItem(ts, n, h, src, cache) ==
    LET key == HashKey(h, src)
    IN IF key \in DOMAIN cache
       THEN LET post == ApplyTransforms(PostTransforms(ts, n), cache[key], FALSE, src)
            IN [out |-> post.out, cache |-> cache, src |-> post.orig, hit |-> TRUE]
       ELSE LET pre  == ApplyTransforms(PreTransforms(ts, n), src, MissObjectIsSource, src)
                post == ApplyTransforms(PostTransforms(ts, n), pre.out, pre.aliased, pre.orig)
            IN [out |-> post.out,
                cache |-> (key :> StoredItem(pre.out, post.out)) @@ cache,
                src |-> post.orig, hit |-> FALSE]

PDInit ==
    /\ pd_transform \in SeqsUpTo(Xforms, MaxTrans)
    /\ pd_cache_n_trans \in 0..Len(pd_transform)
    /\ pd_hash_func \in {"pickle", "json"}
    /\ pd_items = SourceItems
    /\ pd_cache_dir = <<>>
    /\ pd_made = {}
    /\ pd_out = [d \in Datasets |-> [i \in DOMAIN SourceItems |-> <<>>]]
    /\ pd_hit = [d \in Datasets |-> [i \in DOMAIN SourceItems |-> FALSE]]
    /\ OffButPD

\* PersistentDataset(items, transform, cache_dir, cache_n_trans, hash_func)
PDConstruct(d) ==
    /\ d \notin pd_made
    /\ pd_made' = pd_made \cup {d}
    /\ UNCHANGED <<pd_transform, pd_cache_n_trans, pd_hash_func, pd_items,
                   pd_cache_dir, pd_out, pd_hit>>
    /\ UNCHANGED NotPD

\* ds[i]
PDGetItem(d, i) ==
    /\ d \in pd_made
    /\ LET r == ReadItem(pd_transform, pd_cache_n_trans, pd_hash_func,
                         pd_items[i], pd_cache_dir)
       IN /\ pd_out' = [pd_out EXCEPT ![d][i] = <<r.out>>]
          /\ pd_hit' = [pd_hit EXCEPT ![d][i] = r.hit]
          /\ pd_cache_dir' = r.cache
          /\ pd_items' = [pd_items EXCEPT ![i] = r.src]
    /\ UNCHANGED <<pd_transform, pd_cache_n_trans, pd_hash_func, pd_made>>
    /\ UNCHANGED NotPD

PDNext ==
    \/ \E d \in Datasets : PDConstruct(d)
    \/ \E d \in Datasets, i \in DOMAIN SourceItems : PDGetItem(d, i)

SpecPersistent == PDInit /\ [][PDNext]_vars

\* all transforms applied in order to a source item, with no caching
AllTransformsApplied(i) == ApplyTransforms(pd_transform, SourceItems[i], FALSE, SourceItems[i]).out

\* C1: every item a PersistentDataset returns, from a fresh or from an already
\* populated cache_dir, is the source item with all transforms applied in order,
\* for every cache_n_trans; so a later dataset over the same cache_dir returns
\* the same items as the earlier one.
C1_CachedReadEqualsFullTransform ==
    \A i \in DOMAIN SourceItems :
        /\ \A d \in Datasets :
              pd_out[d][i] # <<>> => pd_out[d][i][1] = AllTransformsApplied(i)
        /\ (pd_out[1][i] # <<>> /\ pd_out[2][i] # <<>>) => pd_out[1][i] = pd_out[2][i]

\* C1 witness: a later dataset was served from the cache the earlier one wrote,
\* with some transforms cached and some applied on the read
C1_Witness ==
    \E i \in DOMAIN SourceItems :
        /\ pd_out[1][i] # <<>> /\ ~pd_hit[1][i]
        /\ pd_out[2][i] # <<>> /\ pd_hit[2][i]
        /\ Len(SourceItems[i]) > 0
        /\ 0 < pd_cache_n_trans /\ pd_cache_n_trans < Len(pd_transform)

\* C2: the caller's source items are never changed by constructing and reading
\* a PersistentDataset, although the transform changes its argument in place.
C2_SourceItemsUnchanged == pd_items = SourceItems

\* C2 witness: an in-place transform ran on a miss (first dataset) and the
\* second dataset was served from the cache, under json hashing, for all items
C2_Witness ==
    /\ pd_hash_func = "json"
    /\ \E k \in 1..Len(pd_transform) : pd_transform[k].kind = "inplace"
    /\ \A i \in DOMAIN SourceItems :
          /\ pd_out[1][i] # <<>> /\ ~pd_hit[1][i]
          /\ pd_out[2][i] # <<>> /\ pd_hit[2][i]

(***************************************************************************)
(* BundleAlgo.export_to_disk                                               *)
(***************************************************************************)
\* None is <<>>; a path output_path/algo_name is the pair <<output_path, algo_name>>
None == <<>>

\* the script folders that exist on disk, and their files
ScriptsOnDisk ==
    [tplA |-> {"algo.py", "train.py"},
     tplB |-> {"algo.py", "train.py", "infer.py", "validate.py"}]

\* values of scripts_path: None, existing folders, a folder that does not exist
ScriptsPaths == {None, <<"tplA">>, <<"tplB">>, <<"missing">>}

\* os.path.exists(self.scripts_path)
PathExists(sp) == sp # None /\ sp[1] \in DOMAIN ScriptsOnDisk

DataStatsFiles == {"None", "stats1.yaml", "stats2.yaml"}
DataSrcFiles == {"None", "src1.yaml", "src2.yaml"}

\* BundleAlgo.__init__
NewAlgo(name, sp) ==
    [name |-> name,
     template_configs |-> <<name, "configs">>,
     scripts_path |-> sp,
     cfg |-> [bundle_root |-> None],
     data_stats_files |-> "None",
     data_list_file |-> "None",
     output_path |-> None]

\* a directory that os.makedirs just created
EmptyDir == [scripts |-> None, configs |-> None]

\* os.path.join(output_path, algo_name)
JoinPath(output_path, algo_name) == <<output_path, algo_name>>

\* the scripts folder of the bundle after export: an existing one is removed,
\* then scripts_path is copied if it is set and exists
MergeScripts(old, sp) ==
    IF PathExists(sp)
    THEN <<(IF old = None THEN {} ELSE old[1]) \cup ScriptsOnDisk[sp[1]]>>
    ELSE old
ExportedScripts(old, sp) ==
    IF PathExists(sp) THEN <<ScriptsOnDisk[sp[1]]>> ELSE None

\* save_config_files into a folder holding old: makedirs, then write
\* algo_config.yaml (the exported config, headed by the template file names)
SaveConfigFiles(old, cfg, template_configs) ==
    LET written == [file |-> "algo_config.yaml",
                    config |-> cfg, source_files |-> template_configs]
        kept == IF old = None THEN {} ELSE {f \in old[1] : f.file # written.file}
    IN <<kept \cup {written}>>

\* the configs folder of the bundle after export: an existing one is removed,
\* then save_config_files writes into the new folder
ExportedConfigs(old, cfg, template_configs) == SaveConfigFiles(None, cfg, template_configs)

\* export_to_disk(output_path, algo_name, **kwargs) of algo on file system fs:
\* the algo and the file system afterwards, and the calls made, in order
ExportToDisk(algo, fs, output_path, algo_name, kwargs) ==
    LET fill == [call |-> "fill_template_config",
                 arg |-> algo.data_stats_files, kwargs |-> kwargs]
        write_path == JoinPath(output_path, algo_name)
        cfg == [algo.cfg EXCEPT !.bundle_root = write_path]
        dir == IF write_path \in DOMAIN fs THEN fs[write_path] ELSE EmptyDir
        scripts == ExportedScripts(dir.scripts, algo.scripts_path)
        configs == ExportedConfigs(dir.configs, cfg, algo.template_configs)
        save == [call |-> "save_config_files", arg |-> "None", kwargs |-> None]
    IN [algo |-> [algo EXCEPT !.cfg = cfg, !.output_path = write_path],
        fs |-> (write_path :> [scripts |-> scripts, configs |-> configs]) @@ fs,
        calls |-> <<fill, save>>]

AlgoNames == <<"unet", "segresnet2d", "dints">>

\* f"{name}_{fold}": the last underscore separates a name from the fold digits,
\* so the formatted string determines the pair and the pair stands for it
BundleName(name, fold) == <<name, fold>>

BundleNames == {BundleName(AlgoNames[1], f) : f \in 0..(MaxFold - 1)}

BAInit ==
    /\ \E sp \in ScriptsPaths : ba_algo = NewAlgo(AlgoNames[1], sp)
    /\ ba_fs = <<>>
    /\ ba_last = <<>>
    /\ OffButBA

\* algo.set_data_stats(data_stats_files)
BASetDataStats(f) ==
    /\ ba_algo' = [ba_algo EXCEPT !.data_stats_files = f]
    /\ ba_last' = <<[op |-> "set_data_stats"]>>
    /\ UNCHANGED ba_fs
    /\ UNCHANGED NotBA

\* a new BundleAlgo with another scripts_path takes the place of the instance
BANewAlgo(sp) ==
    /\ ba_algo' = NewAlgo(AlgoNames[1], sp)
    /\ ba_last' = <<[op |-> "new"]>>
    /\ UNCHANGED ba_fs
    /\ UNCHANGED NotBA

\* running the bundle leaves files in its folders (byte code, extra configs)
BARunLeavesFiles(path) ==
    /\ path \in DOMAIN ba_fs
    /\ ba_fs' = [ba_fs EXCEPT
                   ![path].scripts = IF @ = None THEN <<{"__pycache__"}>>
                                     ELSE <<@[1] \cup {"__pycache__"}>>,
                   ![path].configs = <<@[1] \cup {[file |-> "hyper_parameters.yaml",
                                                   config |-> [bundle_root |-> None],
                                                   source_files |-> None]}>>]
    /\ ba_last' = <<[op |-> "run"]>>
    /\ UNCHANGED ba_algo
    /\ UNCHANGED NotBA

\* algo.export_to_disk(output_path, algo_name)
BAExportToDisk(output_path, algo_name) ==
    /\ LET r == ExportToDisk(ba_algo, ba_fs, output_path, algo_name, None)
       IN /\ ba_algo' = r.algo
          /\ ba_fs' = r.fs
          /\ ba_last' = <<[op |-> "export_to_disk", output_path |-> output_path,
                           algo_name |-> algo_name, calls |-> r.calls,
                           before |-> IF JoinPath(output_path, algo_name) \in DOMAIN ba_fs
                                      THEN <<ba_fs[JoinPath(output_path, algo_name)]>>
                                      ELSE <<>>]>>
    /\ UNCHANGED NotBA

BANext ==
    \/ \E f \in DataStatsFiles : BASetDataStats(f)
    \/ \E sp \in ScriptsPaths : BANewAlgo(sp)
    \/ \E path \in DOMAIN ba_fs : BARunLeavesFiles(path)
    \/ \E n \in BundleNames : BAExportToDisk("work", n)

SpecBundleAlgo == BAInit /\ [][BANext]_vars


\* position of the first call named c in a call sequence (0 when absent)
CallIndex(calls, c) ==
    IF \E k \in 1..Len(calls) : calls[k].call = c
    THEN CHOOSE k \in 1..Len(calls) :
            calls[k].call = c /\ \A j \in 1..(k - 1) : calls[j].call # c
    ELSE 0

\* what export_to_disk leaves in every case: output_path, bundle_root, a clean
\* configs folder, and fill_template_config called before the config is saved
ExportCommonPost(e) ==
    LET path == JoinPath(e.output_path, e.algo_name)
    IN /\ ba_algo.output_path = path
       /\ ba_algo.cfg.bundle_root = path
       /\ path \in DOMAIN ba_fs
       /\ ba_fs[path].configs # None
       /\ \A f \in ba_fs[path].configs[1] :
             /\ f.file = "algo_config.yaml"
             /\ f.config = ba_algo.cfg
       /\ Cardinality(ba_fs[path].configs[1]) = 1
       /\ CallIndex(e.calls, "fill_template_config") > 0
       /\ CallIndex(e.calls, "fill_template_config") < CallIndex(e.calls, "save_config_files")

RECURSIVE GenFolds(_, _, _, _, _, _, _)
GenFolds(algo, f, num_fold, output_folder, stats, src, acc) ==
    IF f >= num_fold THEN acc
    ELSE LET gen_algo == [algo EXCEPT !.data_stats_files = stats, !.data_list_file = src]
             name == BundleName(gen_algo.name, f)
             r == ExportToDisk(gen_algo, acc.fs, output_folder, name, <<"fold", f>>)
         IN GenFolds(algo, f + 1, num_fold, output_folder, stats, src,
                     [fs |-> r.fs,
                      history |-> Append(acc.history, [name |-> name, algo |-> r.algo])])

\* the loops nested the other way round: every algo for fold f, then f + 1
RECURSIVE FoldMajorFrom(_, _, _, _, _, _, _)
FoldMajorFrom(algos, f, num_fold, output_folder, stats, src, acc) ==
    IF f >= num_fold THEN acc
    ELSE LET one(a, ac) == GenFolds(a, f, f + 1, output_folder, stats, src, ac)
             step[k \in 0..Len(algos)] ==
                 IF k = 0 THEN acc ELSE one(algos[k], step[k - 1])
         IN FoldMajorFrom(algos, f + 1, num_fold, output_folder, stats, src, step[Len(algos)])
FoldMajor(algos, k, num_fold, output_folder, stats, src, acc) ==
    FoldMajorFrom(algos, 0, num_fold, output_folder, stats, src, acc)

\* for algo in self.algos: algorithms k..len(algos)
RECURSIVE GenAlgos(_, _, _, _, _, _, _)
GenAlgos(algos, k, num_fold, output_folder, stats, src, acc) ==
    IF k > Len(algos) THEN acc
    ELSE GenAlgos(algos, k + 1, num_fold, output_folder, stats, src,
                  GenFolds(algos[k], 0, num_fold, output_folder, stats, src, acc))

\* scripts_path values of the generator's algorithms
GenScriptsPaths == {None, <<"tplA">>}

BGInit ==
    /\ \E n \in 0..MaxAlgos :
         \E sps \in [1..n -> GenScriptsPaths] :
            bg_algos = [k \in 1..n |-> [NewAlgo(AlgoNames[((k - 1) % Len(AlgoNames)) + 1], sps[k])
                                           EXCEPT !.template_configs = <<k, "configs">>]]
    /\ bg_data_stats_filename = "None"
    /\ bg_data_src_cfg_filename = "None"
    /\ bg_history = <<>>
    /\ bg_fs = <<>>
    /\ bg_last = <<>>
    /\ OffButBG

\* BundleGen.set_data_stats
BGSetDataStats(f) ==
    /\ bg_data_stats_filename' = f
    /\ UNCHANGED <<bg_algos, bg_data_src_cfg_filename, bg_history, bg_fs, bg_last>>
    /\ UNCHANGED NotBG

\* BundleGen.set_data_src
BGSetDataSrc(f) ==
    /\ bg_data_src_cfg_filename' = f
    /\ UNCHANGED <<bg_algos, bg_data_stats_filename, bg_history, bg_fs, bg_last>>
    /\ UNCHANGED NotBG

\* number of generate calls made so far
GenerateCalls == IF bg_last = <<>> THEN 0 ELSE bg_last[1].calls

\* BundleGen.generate(output_folder, num_fold)
BGGenerate(output_folder, num_fold) ==
    /\ GenerateCalls < MaxGenerate
    /\ LET r == GenAlgos(bg_algos, 1, num_fold, output_folder,
                         bg_data_stats_filename, bg_data_src_cfg_filename,
                         [fs |-> bg_fs, history |-> bg_history])
       IN /\ bg_history' = r.history
          /\ bg_fs' = r.fs
    /\ bg_last' = <<[output_folder |-> output_folder, num_fold |-> num_fold,
                     before |-> Len(bg_history),
                     data_stats |-> bg_data_stats_filename,
                     data_src |-> bg_data_src_cfg_filename,
                     calls |-> GenerateCalls + 1]>>
    /\ UNCHANGED <<bg_algos, bg_data_stats_filename, bg_data_src_cfg_filename>>
    /\ UNCHANGED NotBG

BGNext ==
    \/ \E f \in {"None", "stats1.yaml"} : BGSetDataStats(f)
    \/ \E f \in {"None", "src1.yaml"} : BGSetDataSrc(f)
    \/ \E nf \in 0..MaxFold : BGGenerate("work", nf)

SpecBundleGen == BGInit /\ [][BGNext]_vars

\* C3: a generate call appends one history entry per (algo, fold) pair, in
\* algo-major, fold-minor order, named after the algo and the fold; the entry's
\* algo was exported to output_folder/name and carries the generator's data
\* stats and data source files; on a fresh generator the history then has
\* len(algos) * num_fold entries.
C3_GenerateHistory ==
    bg_last # <<>> =>
        LET c == bg_last[1]
            n == Len(bg_algos)
            added == SubSeq(bg_history, c.before + 1, Len(bg_history))
        IN /\ Len(added) = n * c.num_fold
           /\ (c.before = 0 => Len(bg_history) = n * c.num_fold)
           /\ \A k \in 1..Len(added) :
                LET a == bg_algos[((k - 1) \div c.num_fold) + 1]
                    f == (k - 1) % c.num_fold
                IN /\ added[k].name = BundleName(a.name, f)
                   /\ added[k].algo.name = a.name
                   /\ added[k].algo.template_configs = a.template_configs
                   /\ added[k].algo.data_stats_files = c.data_stats
                   /\ added[k].algo.data_list_file = c.data_src
                   /\ added[k].algo.output_path = JoinPath(c.output_folder, added[k].name)
                   /\ JoinPath(c.output_folder, added[k].name) \in DOMAIN bg_fs
           /\ \A i, j \in 1..Len(added) : added[i].name = added[j].name => i = j

\* C3 witness: a fresh generator with two algorithms generated two folds each,
\* with data stats and data source files set
C3_Witness ==
    /\ bg_last # <<>> /\ bg_last[1].before = 0
    /\ Len(bg_algos) >= 2 /\ bg_last[1].num_fold >= 2
    /\ bg_last[1].data_stats # "None" /\ bg_last[1].data_src # "None"
    /\ Len(bg_history) = Len(bg_algos) * bg_last[1].num_fold

(***************************************************************************)
(* BundleAlgo.train                                                        *)
(***************************************************************************)
\* a dict is the sequence of its <<key, value>> items in insertion order
ParamKeys == {"CUDA_VISIBLE_DEVICES", "num_epochs", "learning_rate"}

DeviceLists == {[k \in 1..n |-> k] : n \in 0..MaxDevices}

ParamValues(k) == IF k = "CUDA_VISIBLE_DEVICES" THEN DeviceLists ELSE {2}

Keys(d) == {d[k][1] : k \in 1..Len(d)}

RECURSIVE DictsOver(_)
DictsOver(ks) ==
    {<<>>} \cup UNION {{Append(d, <<k, v>>) : d \in DictsOver(ks \ {k}), v \in ParamValues(k)}
                       : k \in ks}

TrainParams == {None} \cup {<<d>> : d \in DictsOver(ParamKeys)}

\* d[key] for a key of d
DictGet(d, key) == d[CHOOSE k \in 1..Len(d) : d[k][1] = key][2]

\* d after d.pop(key)
DictPop(d, key) == SelectSeq(d, LAMBDA item : item[1] # key)

\* params = deepcopy(train_params): is params the caller's dict object?
ParamsIsCallersDict == FALSE

\* the command line built from the parameters that stay after the pop
KeepDevicesArg(params, n_devices) ==
    [prog |-> IF n_devices > 1 THEN "torchrun" ELSE "python",
     nnodes |-> IF n_devices > 1 THEN 1 ELSE 0,
     nproc_per_node |-> IF n_devices > 1 THEN n_devices ELSE 0,
     script |-> "train.py", config_file |-> "algo_config.yaml",
     args |-> params]
TrainCmd(params, n_devices) ==
    [prog |-> IF n_devices > 1 THEN "torchrun" ELSE "python",
     nnodes |-> IF n_devices > 1 THEN 1 ELSE 0,
     nproc_per_node |-> IF n_devices > 1 THEN n_devices ELSE 0,
     script |-> "train.py", config_file |-> "algo_config.yaml",
     args |-> DictPop(params, "CUDA_VISIBLE_DEVICES")]

\* train(train_params) with a subprocess that would exit with returncode rc and
\* the captured stdout and stderr: the launches made, how the call ends, and
\* the caller's dict afterwards
Train(train_params, device_count, environ, rc, stdout, stderr) ==
    IF train_params = None
    THEN \* params is never bound: the membership test raises
         [launches |-> <<>>, outcome |-> [kind |-> "UnboundLocalError"],
          train_params |-> train_params]
    ELSE LET params == train_params[1]
             has == "CUDA_VISIBLE_DEVICES" \in Keys(params)
             devices == IF has THEN DictGet(params, "CUDA_VISIBLE_DEVICES") ELSE <<>>
             n_devices == IF has THEN Len(devices) ELSE device_count
             devices_str == IF has THEN devices ELSE <<>>
             cmd == TrainCmd(params, n_devices)
             ps_environ == IF devices_str # <<>> THEN <<devices_str>> ELSE environ
             launch == [cmd |-> cmd, env |-> ps_environ]
         IN [launches |-> <<launch>>,
             outcome |-> IF rc # 0
                         THEN [kind |-> "RuntimeError", returncode |-> rc,
                               errors |-> stderr, output |-> stdout]
                         ELSE [kind |-> "return", returncode |-> rc,
                               errors |-> stderr, output |-> stdout],
             train_params |-> IF ParamsIsCallersDict /\ has
                              THEN <<DictPop(params, "CUDA_VISIBLE_DEVICES")>>
                              ELSE train_params]

TRInit ==
    /\ tr_train_params \in TrainParams
    /\ tr_device_count \in 0..MaxDevices
    /\ tr_environ \in {None, <<<<1>>>>}
    /\ tr_last = <<>>
    /\ OffButTR

\* the caller builds another train_params
TRNewParams(tp) ==
    /\ tr_train_params' = tp
    /\ tr_last' = <<>>
    /\ UNCHANGED <<tr_device_count, tr_environ>>
    /\ UNCHANGED NotTR

\* algo.train(train_params)
TRTrain(rc, stdout, stderr) ==
    /\ LET r == Train(tr_train_params, tr_device_count, tr_environ, rc, stdout, stderr)
       IN /\ tr_last' = <<[train_params |-> tr_train_params, launches |-> r.launches,
                           outcome |-> r.outcome,
                           process |-> [returncode |-> rc, stdout |-> stdout,
                                        stderr |-> stderr]]>>
          /\ tr_train_params' = r.train_params
    /\ UNCHANGED <<tr_device_count, tr_environ>>
    /\ UNCHANGED NotTR

TRNext ==
    \/ \E tp \in TrainParams : TRNewParams(tp)
    \/ \E rc \in 0..MaxReturnCode, err \in {"", "Traceback"} : TRTrain(rc, "epoch", err)

SpecTrain == TRInit /\ [][TRNext]_vars

\* C5: every train call launches the training subprocess exactly once; when
\* the subprocess exits non-zero the call raises RuntimeError carrying the
\* return code and the captured stderr and stdout, and returns no result.
C5_TrainLaunchesOnce ==
    tr_last # <<>> =>
        LET c == tr_last[1]
        IN /\ Len(c.launches) = 1
           /\ c.process.returncode # 0 =>
                /\ c.outcome.kind = "RuntimeError"
                /\ c.outcome.returncode = c.process.returncode
                /\ c.outcome.errors = c.process.stderr
                /\ c.outcome.output = c.process.stdout

OutputKeys == {<<"pred">>, <<"seg">>}
BatchKeys == {<<"image">>, <<"label">>}
Postfix == "inverted"

\* batch_key + InverseKeys.KEY_SUFFIX
TransformKey(batch_key) == Append(batch_key, "transforms")

\* f"{output_key}_{self.postfix}"
SameKey(output_key) == output_key
InvertedKey(output_key) == Append(output_key, Postfix)

\* convert_inverse_interp_mode(trans_info, mode="nearest"): changes the
\* transform info object of the batch in place
ConvertInterpMode(info) == [info EXCEPT !.mode = "nearest"]

\* [self._totensor(i[batch_key]) for i in self.inverter(segs_dict)]: one
\* inverted item per item of the batch
InvertedItems(tensor, batch_key, info) ==
    [b \in 1..Len(tensor) |->
        [inverse_of |-> tensor[b], transforms_of |-> batch_key, mode |-> info.mode]]

\* TransformInverter.__call__: pairs k..n of the zip, on the engine state st
RECURSIVE InvertPairs(_, _, _)
InvertPairs(h, k, st) ==
    IF k > Len(h.output_keys) THEN st
    ELSE LET output_key == h.output_keys[k]
             batch_key == h.batch_keys[k]
             transform_key == TransformKey(batch_key)
         IN IF transform_key \notin DOMAIN st.batch
            THEN InvertPairs(h, k + 1, [st EXCEPT !.warnings = Append(@, batch_key)])
            ELSE LET info == IF h.nearest_interp[k]
                             THEN ConvertInterpMode(st.batch[transform_key])
                             ELSE st.batch[transform_key]
                     items == InvertedItems(st.output[output_key], batch_key, info)
                 IN InvertPairs(h, k + 1,
                       [st EXCEPT !.batch = (transform_key :> info) @@ @,
                                  !.output = (InvertedKey(output_key) :> items) @@ @])

\* the batches an engine step can produce: a tensor per batch key, and the
\* applied transforms of a key only if all its pre-transforms are invertible
Tensors == [1..BatchSize -> {0, 1}]
TransformInfos == {[mode |-> m] : m \in {"bilinear", "nearest"}}

Batches ==
    UNION {{(<<"image">> :> img) @@ (<<"label">> :> img) @@ infos
              : infos \in [{TransformKey(k) : k \in ks} -> TransformInfos]}
           : ks \in SUBSET BatchKeys, img \in {[b \in 1..BatchSize |-> b]}}

Outputs == {(<<"pred">> :> p) @@ (<<"seg">> :> [b \in 1..BatchSize |-> 1 - p[b]]) : p \in Tensors}

Handlers ==
    UNION {[output_keys : [1..n -> OutputKeys], batch_keys : [1..n -> BatchKeys],
            nearest_interp : [1..n -> BOOLEAN]] : n \in 1..MaxPairs}

IVInit ==
    /\ iv_handler \in Handlers
    /\ iv_batch \in Batches
    /\ iv_output \in {o \in Outputs : \A b \in 1..BatchSize : o[<<"pred">>][b] = 0}
    /\ iv_last = <<>>
    /\ OffButIV

\* the engine runs an iteration: a new batch and a new model output
IVIteration(batch, output) ==
    /\ iv_last # <<>>
    /\ iv_batch' = batch
    /\ iv_output' = output
    /\ iv_last' = <<>>
    /\ UNCHANGED iv_handler
    /\ UNCHANGED NotIV

\* IterationEvents.MODEL_COMPLETED: the handler is called on the engine
IVCall ==
    /\ iv_last = <<>>
    /\ LET st == InvertPairs(iv_handler, 1,
                             [batch |-> iv_batch, output |-> iv_output, warnings |-> <<>>])
       IN /\ iv_batch' = st.batch
          /\ iv_output' = st.output
          /\ iv_last' = <<[batch |-> iv_batch, output |-> iv_output,
                           warnings |-> st.warnings]>>
    /\ UNCHANGED iv_handler
    /\ UNCHANGED NotIV

IVNext ==
    \/ \E b \in Batches, o \in Outputs : IVIteration(b, o)
    \/ IVCall

SpecInverter == IVInit /\ [][IVNext]_vars

\* pairs of the handler whose batch key had its transforms in the batch
PresentPairs(c) ==
    {k \in 1..Len(iv_handler.output_keys) :
        TransformKey(iv_handler.batch_keys[k]) \in DOMAIN c.batch}

\* C7: a handler call goes through every pair; a pair whose
\* '{batch_key}_transforms' is absent from the batch only gives a warning and
\* the later pairs are still processed; every other pair stores the list of
\* inverted items under '{output_key}_{postfix}'; nothing else of
\* engine.state.output is written, so output[output_key] is unchanged.
C7_InverterPairs ==
    iv_last # <<>> =>
        LET c == iv_last[1]
            n == Len(iv_handler.output_keys)
            absent == {k \in 1..n : k \notin PresentPairs(c)}
        IN /\ Len(c.warnings) = Cardinality(absent)
           /\ \A k \in absent : \E w \in 1..Len(c.warnings) :
                                   c.warnings[w] = iv_handler.batch_keys[k]
           /\ DOMAIN iv_output =
                 DOMAIN c.output \cup {iv_handler.output_keys[k] \o <<"inverted">> : k \in PresentPairs(c)}
           /\ \A key \in DOMAIN c.output : iv_output[key] = c.output[key]
           /\ \A k \in PresentPairs(c) :
                LET inv == iv_output[iv_handler.output_keys[k] \o <<"inverted">>]
                    last == CHOOSE j \in PresentPairs(c) :
                               /\ iv_handler.output_keys[j] = iv_handler.output_keys[k]
                               /\ \A i \in PresentPairs(c) :
                                     iv_handler.output_keys[i] = iv_handler.output_keys[k] => i <= j
                IN /\ Len(inv) = BatchSize
                   /\ \A b \in 1..BatchSize :
                        /\ inv[b].inverse_of = c.output[iv_handler.output_keys[k]][b]
                        /\ inv[b].transforms_of = iv_handler.batch_keys[last]

\* C7 witness: the first pair's transforms were absent and a later pair was
\* still inverted
C7_Witness ==
    /\ iv_last # <<>>
    /\ Len(iv_handler.output_keys) >= 2
    /\ 1 \notin PresentPairs(iv_last[1])
    /\ 2 \in PresentPairs(iv_last[1])
    /\ iv_handler.output_keys[1] # iv_handler.output_keys[2]
    /\ (iv_handler.output_keys[2] \o <<"inverted">>) \in DOMAIN iv_output
    /\ (iv_handler.output_keys[1] \o <<"inverted">>) \notin DOMAIN iv_output

(***************************************************************************)
(* _BatchInverseDataset                                                    *)
(***************************************************************************)
\* an item is a dict: <<"image">> -> [size |-> n], and for a key whose applied
\* transforms are recorded, <<"image", "transforms">> -> the list of the
\* applied transforms, most recent last
AppliedTransforms ==
    {[class |-> c, orig_size |-> o] : c \in {"SpatialPadd", "Rotated"}, o \in 1..MaxSize}

TransformStacks == SeqsUpTo(AppliedTransforms, MaxStack)

\* the decollated items a batch can hold: the image with any recorded stack,
\* the label with no record, the image's record or a short one
BatchItems ==
    UNION {{(<<"image">> :> [size |-> MaxSize]) @@ (<<"label">> :> [size |-> MaxSize])
              @@ (TransformKey(<<"image">>) :> st) @@ lab
              : lab \in {<<>>} \cup {TransformKey(<<"label">>) :> l
                                      : l \in {st, <<>>,
                                               <<[class |-> "SpatialPadd", orig_size |-> 1]>>,
                                               <<[class |-> "Rotated", orig_size |-> 1]>>}}}
           : st \in TransformStacks}

KeyTuples == {None, <<<<"image">>>>, <<<<"image">>, <<"label">>>>, <<<<"label">>, <<"image">>>>}

Indices == {0, 1}

\* the order of the keys of a dict
DictOrder == <<<<"image">>, <<"label">>>>

\* CenterSpatialCrop(roi_size)(img)
CenterSpatialCrop(img, roi_size) ==
    [img EXCEPT !.size = IF roi_size < @ THEN roi_size ELSE @]

\* list.pop(): the list that stays
PopLast(stack) == SubSeq(stack, 1, Len(stack) - 1)

\* list.pop(): the element returned
TakeFirst(stack) == stack[1]
TakeLast(stack) == stack[Len(stack)]

\* the keys the pad collation is undone for
SelectedKeys(keys, data) ==
    IF keys # None THEN keys
    ELSE SelectSeq(DictOrder, LAMBDA key : TransformKey(key) \in DOMAIN data)

\* the loop over the selected keys, from position k: data is the shallow copy,
\* stored the dict of self.data whose lists the copy shares
RECURSIVE UndoPadCollation(_, _, _, _)
UndoPadCollation(sel, k, data, stored) ==
    IF k > Len(sel) THEN [raised |-> "no", data |-> data, stored |-> stored]
    ELSE LET key == sel[k]
             transform_key == TransformKey(key)
         IN IF transform_key \notin DOMAIN data
            THEN [raised |-> "KeyError", data |-> data, stored |-> stored]
            ELSE IF data[transform_key] = <<>>
            THEN [raised |-> "IndexError", data |-> data, stored |-> stored]
            ELSE LET transform == TakeLast(data[transform_key])
                     rest == PopLast(data[transform_key])
                     popped == [data EXCEPT ![transform_key] = rest]
                     kept == [stored EXCEPT ![transform_key] = rest]
                 IN IF transform.class # "SpatialPadd"
                    THEN [raised |-> "RuntimeError", data |-> popped, stored |-> kept]
                    ELSE UndoPadCollation(sel, k + 1,
                            [popped EXCEPT ![key] = CenterSpatialCrop(@, transform.orig_size)],
                            kept)

\* __getitem__ on the stored dict of one index
GetItem(stored, keys, pad_collation_used) ==
    LET undone == IF pad_collation_used
                  THEN UndoPadCollation(SelectedKeys(keys, stored), 1, stored, stored)
                  ELSE [raised |-> "no", data |-> stored, stored |-> stored]
    IN [raised |-> undone.raised,
        stored |-> undone.stored,
        returned |-> IF undone.raised = "no"
                     THEN <<[inverse_of |-> undone.data, keys |-> keys]>>
                     ELSE <<>>]

BIInit ==
    /\ \E item \in BatchItems : bi_data = [i \in Indices |-> item]
    /\ bi_keys \in KeyTuples
    /\ bi_pad_collation_used \in BOOLEAN
    /\ bi_last = <<>>
    /\ OffButBI

\* inv_ds[index]
BIGetItem(index) ==
    /\ LET r == GetItem(bi_data[index], bi_keys, bi_pad_collation_used)
       IN /\ bi_data' = [bi_data EXCEPT ![index] = r.stored]
          /\ bi_last' = <<[index |-> index, before |-> bi_data[index],
                           raised |-> r.raised, returned |-> r.returned]>>
    /\ UNCHANGED <<bi_keys, bi_pad_collation_used>>
    /\ UNCHANGED NotBI

BINext == \E index \in Indices : BIGetItem(index)

SpecBatchInverse == BIInit /\ [][BINext]_vars

\* the selected keys whose most recent applied transform cannot be taken or is
\* not SpatialPadd, as positions of the selection
BadPositions(sel, item) ==
    {k \in 1..Len(sel) :
        \/ TransformKey(sel[k]) \notin DOMAIN item
        \/ item[TransformKey(sel[k])] = <<>>
        \/ item[TransformKey(sel[k])][Len(item[TransformKey(sel[k])])].class # "SpatialPadd"}

\* C8: with pad collation, __getitem__ takes the most recent applied transform
\* of every selected key, raises RuntimeError when it is not SpatialPadd, and
\* otherwise hands the inverse the item with every selected key center-cropped
\* to the recorded orig_size and that transform removed; without pad collation
\* the inverse gets the item with no applied transform removed.
C8_UndoPadBeforeInverse ==
    bi_last # <<>> =>
        LET c == bi_last[1]
            sel == IF bi_keys # None THEN bi_keys
                   ELSE SelectSeq(DictOrder, LAMBDA key : TransformKey(key) \in DOMAIN c.before)
            bad == BadPositions(sel, c.before)
        IN IF ~bi_pad_collation_used
           THEN /\ c.raised = "no"
                /\ c.returned[1].inverse_of = c.before
                /\ bi_data[c.index] = c.before
           ELSE IF bad = {}
           THEN /\ c.raised = "no"
                /\ LET d == c.returned[1].inverse_of
                   IN /\ DOMAIN d = DOMAIN c.before
                      /\ \A k \in 1..Len(sel) :
                           LET stack == c.before[TransformKey(sel[k])]
                               top == stack[Len(stack)]
                           IN /\ d[TransformKey(sel[k])] = SubSeq(stack, 1, Len(stack) - 1)
                              /\ d[sel[k]].size =
                                    (IF top.orig_size < c.before[sel[k]].size
                                     THEN top.orig_size ELSE c.before[sel[k]].size)
                      /\ \A key \in DOMAIN d :
                            (\A k \in 1..Len(sel) : key # sel[k] /\ key # TransformKey(sel[k]))
                               => d[key] = c.before[key]
           ELSE LET first == CHOOSE k \in bad : \A j \in bad : k <= j
                    tk == TransformKey(sel[first])
                IN /\ c.raised # "no"
                   /\ c.returned = <<>>
                   /\ (tk \in DOMAIN c.before /\ c.before[tk] # <<>>) => c.raised = "RuntimeError"

\* C8 witness: pad collation was used, two keys were selected, each had
\* SpatialPadd as its most recent of several transforms, and the image was
\* cropped below its padded size
C8_Witness ==
    /\ bi_last # <<>>
    /\ bi_pad_collation_used
    /\ bi_last[1].raised = "no"
    /\ Len(SelectedKeys(bi_keys, bi_last[1].before)) = 2
    /\ Len(bi_last[1].before[TransformKey(<<"image">>)]) >= 2
    /\ bi_last[1].returned[1].inverse_of[<<"image">>].size < MaxSize

(***************************************************************************)
(* DecathlonDataset                                                        *)
(***************************************************************************)
\* load_decathlon_datalist: the items of the "training" and "test" lists of
\* dataset.json
Datalist(section, n) == [i \in 1..n |-> <<section, i>>]

\* self.R.shuffle(indices) after set_random_state(seed): a permutation of
\* 0..n-1 that the seed and n determine
Shuffle(seed, n) ==
    [i \in 1..n |-> IF seed % 2 = 1 THEN (n - i + seed) % n ELSE (i - 1 + seed) % n]

\* split_dataset(nsplits, length): [start, end) of each fold; the folds cover
\* 0..length-1 in order, the first length % nsplits folds one item longer
SplitDataset(nsplits, length) ==
    LET q == length \div nsplits
        r == length % nsplits
        start(k) == k * q + (IF k < r THEN k ELSE r)
    IN [k \in 1..nsplits |-> <<start(k - 1), start(k)>>]

\* seq[i] of a Python list: position (1-based) of index i, 0 for IndexError
PyIndex(len, i) ==
    IF 0 <= i /\ i < len THEN i + 1
    ELSE IF i < 0 /\ -len <= i THEN len + i + 1
    ELSE 0

Min(x, y) == IF x < y THEN x ELSE y

\* indices[a:b] for 0 <= a, 0 <= b
ValidationIndices(indices, a, b) == SubSeq(indices, a + 1, Min(b, Len(indices)))

\* np.delete(indices, np.s_[a:b]) for 0 <= a, 0 <= b
DeleteShort(indices, a, b) ==
    IF a >= b THEN indices
    ELSE SubSeq(indices, 1, Min(a, Len(indices))) \o SubSeq(indices, b, Len(indices))
TrainingIndices(indices, a, b) ==
    IF a >= b THEN indices
    ELSE SubSeq(indices, 1, Min(a, Len(indices))) \o SubSeq(indices, b + 1, Len(indices))

\* the branch of _split_datalist for nsplits <= 1: no fold is taken out
NoSplitQuiet(datalist, indices, section) ==
    [raised |-> "no",
     data |-> IF section = "validation" THEN <<>>
              ELSE [k \in 1..Len(datalist) |-> datalist[indices[k] + 1]]]
NoSplit(datalist, indices, section) ==
    IF section = "validation"
    THEN [raised |-> "ValueError", data |-> <<>>]
    ELSE [raised |-> "no",
          data |-> [k \in 1..Len(datalist) |-> datalist[indices[k] + 1]]]

\* _split_datalist(datalist)
SplitDatalist(datalist, section, seed, nsplits, fold) ==
    IF section = "test" THEN [raised |-> "no", data |-> datalist]
    ELSE LET length == Len(datalist)
             indices == Shuffle(seed, length)
         IN IF nsplits > 1
            THEN LET fold_indices == SplitDataset(nsplits, length)
                     f == PyIndex(nsplits, fold)
                 IN IF f = 0 THEN [raised |-> "IndexError", data |-> <<>>]
                    ELSE LET picked ==
                                 IF section = "training"
                                 THEN TrainingIndices(indices, fold_indices[f][1], fold_indices[f][2])
                                 ELSE ValidationIndices(indices, fold_indices[f][1], fold_indices[f][2])
                         IN [raised |-> "no",
                             data |-> [k \in 1..Len(picked) |-> datalist[picked[k] + 1]]]
            ELSE NoSplit(datalist, indices, section)

\* _generate_data_list(dataset_dir)
GenerateDataList(section, args) ==
    LET json_section == IF section \in {"training", "validation"} THEN "training" ELSE "test"
        datalist == Datalist(json_section,
                             IF json_section = "training" THEN args.n_training ELSE args.n_test)
    IN SplitDatalist(datalist, section, args.seed, args.nsplits, args.fold)

\* the tasks of DecathlonDataset.resource (two of the ten) and another name
SupportedTasks == {"Task04_Hippocampus", "Task09_Spleen"}
Tasks == {"Task09_Spleen", "Task11_Unknown"}

\* the check of the task in __init__
TaskNotChecked(task) == FALSE
TaskRejected(task) == task \notin SupportedTasks

\* the check of the fold index in __init__
FoldRejected(fold, nsplits) == fold > nsplits - 1

\* DecathlonDataset.__init__ on the file system env: root_is_dir says whether
\* root_dir is a directory, dataset whether root_dir/task is "present", or
\* absent but "downloadable", or absent and "unavailable" (the download fails)
DecathlonInit(section, download, args, env) ==
    LET none == [raised |-> "no", message |-> "", downloads |-> 0, data |-> <<>>,
                 dataset |-> env.dataset]
    IN IF ~env.root_is_dir
       THEN [none EXCEPT !.raised = "ValueError",
                         !.message = "Root directory root_dir must be a directory."]
       ELSE IF FoldRejected(args.fold, args.nsplits)
       THEN [none EXCEPT !.raised = "ValueError",
                         !.message = "fold index should be in [0, nsplit - 1]."]
       ELSE IF TaskRejected(args.task)
       THEN [none EXCEPT !.raised = "ValueError", !.message = "Unsupported task"]
       ELSE IF download /\ env.dataset = "unavailable"
       THEN [none EXCEPT !.raised = "DownloadError", !.message = "download", !.downloads = 1]
       ELSE IF ~download /\ env.dataset # "present"
       THEN [none EXCEPT !.raised = "RuntimeError",
                         !.message = "Cannot find dataset directory"]
       ELSE LET r == GenerateDataList(section, args)
            IN [raised |-> r.raised,
                message |-> IF r.raised = "ValueError"
                            THEN "if nplits is 1, will not generate datalist for validation."
                            ELSE "",
                downloads |-> IF download THEN 1 ELSE 0,
                data |-> r.data,
                dataset |-> "present"]

Sections == {"training", "validation", "test"}

DCInit ==
    /\ dc_args \in [task : Tasks, seed : 0..MaxSeed, nsplits : 1..MaxSplits,
                    fold : (-1)..MaxSplits, n_training : 0..MaxLength, n_test : {1}]
    /\ dc_env \in [root_is_dir : BOOLEAN,
                   dataset : {"present", "downloadable", "unavailable"}]
    /\ dc_training = <<>>
    /\ dc_validation = <<>>
    /\ dc_last = <<>>
    /\ OffButDC

\* DecathlonDataset(root_dir, task, section, download=download, seed=seed,
\*                  nsplits=nsplits, fold=fold)
DCConstruct(section, download) ==
    /\ LET r == DecathlonInit(section, download, dc_args, dc_env)
       IN /\ dc_last' = <<[section |-> section, download |-> download, env |-> dc_env,
                           raised |-> r.raised, message |-> r.message,
                           downloads |-> r.downloads, data |-> r.data]>>
          /\ dc_env' = [dc_env EXCEPT !.dataset = r.dataset]
          /\ dc_training' = IF section = "training" /\ r.raised = "no"
                            THEN <<r.data>> ELSE dc_training
          /\ dc_validation' = IF section = "validation" /\ r.raised = "no"
                              THEN <<r.data>> ELSE dc_validation
    /\ UNCHANGED dc_args
    /\ UNCHANGED NotDC

DCNext == \E section \in Sections, download \in BOOLEAN : DCConstruct(section, download)

SpecDecathlon == DCInit /\ [][DCNext]_vars

\* the items of a list, as a set
Range(seq) == {seq[k] : k \in 1..Len(seq)}

\* C9: for nsplits > 1 and fold in [0, nsplits - 1], the validation and the
\* training data built from the same datalist and seed are disjoint and hold
\* every item of the labelled training datalist exactly once; validation is
\* the fold and training the other nsplits - 1 folds of the shuffled list.
C9_FoldsPartitionDatalist ==
    (/\ dc_args.nsplits > 1
     /\ 0 <= dc_args.fold /\ dc_args.fold <= dc_args.nsplits - 1
     /\ dc_training # <<>> /\ dc_validation # <<>>) =>
        LET train == dc_training[1]
            val == dc_validation[1]
            all == Datalist("training", dc_args.n_training)
            shuffled == [k \in 1..Len(all) |-> all[Shuffle(dc_args.seed, Len(all))[k] + 1]]
            folds == SplitDataset(dc_args.nsplits, Len(all))
            fold(k) == SubSeq(shuffled, folds[k][1] + 1, folds[k][2])
        IN /\ Range(train) \cap Range(val) = {}
           /\ Range(train) \cup Range(val) = Range(all)
           /\ Len(train) + Len(val) = Len(all)
           /\ val = fold(dc_args.fold + 1)
           /\ Range(train) = UNION {Range(fold(k)) : k \in (1..dc_args.nsplits) \ {dc_args.fold + 1}}

\* C9 witness: both sections were built from a datalist that does not divide
\* evenly, with an inner fold, and both are non-empty
C9_Witness ==
    /\ dc_args.nsplits = 3 /\ dc_args.fold = 1 /\ dc_args.n_training = 4
    /\ dc_training # <<>> /\ dc_validation # <<>>
    /\ Len(dc_validation[1]) >= 1
    /\ Len(dc_training[1]) >= 2

\* C10: constructing a DecathlonDataset with a fold index outside
\* [0, nsplits - 1] raises ValueError.
C10_FoldOutOfRangeRaises ==
    (/\ dc_last # <<>>
     /\ (dc_args.fold < 0 \/ dc_args.fold > dc_args.nsplits - 1)) =>
        dc_last[1].raised = "ValueError"

\* a construction that reached _generate_data_list: the arguments passed the
\* checks of __init__ and the dataset directory was there or was downloaded
ReachedDataList(call) ==
    /\ call.env.root_is_dir
    /\ ~FoldRejected(dc_args.fold, dc_args.nsplits)
    /\ ~TaskRejected(dc_args.task)
    /\ IF call.download THEN call.env.dataset # "unavailable"
                        ELSE call.env.dataset = "present"

\* C11: with nsplits = 1 the dataset is not split: section "training" yields
\* every item of the labelled training datalist, each once, and section
\* "validation" raises ValueError and produces no datalist.
C11_NoSplitForOneFold ==
    (/\ dc_last # <<>>
     /\ dc_args.nsplits = 1
     /\ ReachedDataList(dc_last[1])) =>
        LET all == Datalist("training", dc_args.n_training)
        IN /\ dc_last[1].section = "training" =>
                /\ dc_last[1].raised = "no"
                /\ Len(dc_last[1].data) = Len(all)
                /\ Range(dc_last[1].data) = Range(all)
           /\ dc_last[1].section = "validation" =>
                /\ dc_last[1].raised = "ValueError"
                /\ dc_last[1].data = <<>>

\* C11 witness: with nsplits = 1 the training section was built with several
\* items and the later construction of the validation section raised
C11_Witness ==
    /\ dc_args.nsplits = 1
    /\ dc_training # <<>> /\ Len(dc_training[1]) >= 3
    /\ dc_validation = <<>>
    /\ dc_last # <<>>
    /\ dc_last[1].section = "validation"
    /\ ReachedDataList(dc_last[1])
    /\ dc_last[1].raised = "ValueError"

\* C12: the constructor raises ValueError before any download is attempted
\* when root_dir is not a directory or the task is not supported; with
\* download = False and arguments that pass the checks it raises RuntimeError
\* "Cannot find dataset directory..." when root_dir/task does not exist.
C12_ErrorsBeforeDownload ==
    dc_last # <<>> =>
        LET call == dc_last[1]
        IN /\ (~call.env.root_is_dir \/ dc_args.task \notin SupportedTasks) =>
                /\ call.raised = "ValueError"
                /\ call.downloads = 0
                /\ dc_env.dataset = call.env.dataset
           /\ (/\ call.env.root_is_dir
               /\ dc_args.fold <= dc_args.nsplits - 1
               /\ dc_args.task \in SupportedTasks
               /\ ~call.download
               /\ call.env.dataset # "present") =>
                /\ call.raised = "RuntimeError"
                /\ call.message = "Cannot find dataset directory"
                /\ call.downloads = 0

\* C12 witness: a construction with download = False and valid arguments
\* found no dataset directory and raised RuntimeError
C12_Witness ==
    /\ dc_last # <<>>
    /\ dc_last[1].env.root_is_dir
    /\ dc_args.task \in SupportedTasks
    /\ ~dc_last[1].download
    /\ dc_last[1].env.dataset = "downloadable"
    /\ dc_last[1].raised = "RuntimeError"
    /\ dc_last[1].downloads = 0

(***************************************************************************)
(* MedNISTDataset                                                          *)
(***************************************************************************)
MaxClasses == 2
MaxImages == 2
MaxRann == 2

\* the MedNIST folder: one sub-folder per class, classes[c] images in class c
Contents ==
    UNION {[1..n -> 0..MaxImages] : n \in 0..MaxClasses}

\* self.R.random() of the i-th randomize() after set_random_state(seed), as a
\* level 0..MaxRann of [0, 1)
Rann(seed, i) == (seed + i * (seed + 1)) % (MaxRann + 1)

\* image_files_list and image_class: the images class by class
RECURSIVE ImageList(_, _)
ImageList(classes, c) ==
    IF c > Len(classes) THEN <<>>
    ELSE [k \in 1..classes[c] |-> [image |-> <<c, k>>, label |-> c - 1]]
         \o ImageList(classes, c + 1)

\* the loop of _generate_data_list from image i on, data being the items
\* appended so far
RECURSIVE SectionLoop(_, _, _, _, _)
SectionLoop(images, i, section, args, data) ==
    IF i > Len(images) THEN [raised |-> "no", data |-> data]
    ELSE LET rann == Rann(args.seed, i)
             skip ==
                 IF section = "training" THEN rann < args.val_frac + args.test_frac
                 ELSE IF section = "validation" THEN rann >= args.val_frac
                 ELSE rann < args.val_frac \/ rann >= args.val_frac + args.test_frac
         IN IF section \notin {"training", "validation", "test"}
            THEN [raised |-> "ValueError", data |-> <<>>]
            ELSE SectionLoop(images, i + 1, section, args,
                             IF skip THEN data ELSE Append(data, images[i]))

\* MedNISTDataset._generate_data_list(dataset_dir)
MedNISTGenerateDataList(section, args, classes) ==
    SectionLoop(ImageList(classes, 1), 1, section, args, <<>>)

\* MedNISTDataset.__init__ on the file system env
MedNISTInit(section, download, args, env) ==
    LET none == [raised |-> "no", message |-> "", downloads |-> 0, data |-> <<>>,
                 dataset |-> env.dataset]
    IN IF ~env.root_is_dir
       THEN [none EXCEPT !.raised = "ValueError",
                         !.message = "Root directory root_dir must be a directory."]
       ELSE IF download /\ env.dataset = "unavailable"
       THEN [none EXCEPT !.raised = "DownloadError", !.message = "download", !.downloads = 1]
       ELSE IF ~download /\ env.dataset # "present"
       THEN [none EXCEPT !.raised = "RuntimeError",
                         !.message = "Cannot find dataset directory"]
       ELSE LET r == MedNISTGenerateDataList(section, args, env.classes)
            IN [raised |-> r.raised,
                message |-> IF r.raised = "ValueError" THEN "Unsupported section" ELSE "",
                downloads |-> IF download THEN 1 ELSE 0,
                data |-> r.data,
                dataset |-> "present"]

\* the three sections and a name that is none of them
MedNISTSections == {"training", "validation", "test", "train"}

MNInit ==
    /\ mn_args \in [seed : 0..MaxSeed, val_frac : 0..1, test_frac : 0..1]
    /\ mn_env \in [root_is_dir : BOOLEAN,
                   dataset : {"present", "downloadable", "unavailable"},
                   classes : Contents]
    /\ mn_last = <<>>
    /\ OffButMN

\* MedNISTDataset(root_dir, section, download=download, seed=seed,
\*                val_frac=val_frac, test_frac=test_frac)
MNConstruct(section, download) ==
    /\ LET r == MedNISTInit(section, download, mn_args, mn_env)
       IN /\ mn_last' = <<[section |-> section, download |-> download, env |-> mn_env,
                           raised |-> r.raised, message |-> r.message,
                           downloads |-> r.downloads, data |-> r.data]>>
          /\ mn_env' = [mn_env EXCEPT !.dataset = r.dataset]
    /\ UNCHANGED mn_args
    /\ UNCHANGED NotMN

MNNext == \E section \in MedNISTSections, download \in BOOLEAN : MNConstruct(section, download)

SpecMedNIST == MNInit /\ [][MNNext]_vars

\* C13: a construction that gets to the dataset directory with a section that
\* is not "training", "validation" or "test" raises ValueError, whatever the
\* directory holds.
C13_BadSectionRaises ==
    (/\ mn_last # <<>>
     /\ mn_last[1].section \notin {"training", "validation", "test"}
     /\ mn_last[1].env.root_is_dir
     /\ IF mn_last[1].download THEN mn_last[1].env.dataset # "unavailable"
                               ELSE mn_last[1].env.dataset = "present") =>
        mn_last[1].raised = "ValueError"

(***************************************************************************)
(* NiftiSaver                                                              *)
(***************************************************************************)
MaxSaves == 4

\* values of meta_data["filename_or_obj"]
FileNames == {"img_a", "img_b"}

\* meta_data of save: <<>> for None (or an empty dict), else <<the dict>>
MetaData == {<<>>} \cup {<<[filename_or_obj |-> f]>> : f \in FileNames}

\* meta_data of save_batch: <<>> for None, else <<the dict of per-item lists>>
BatchMetaData(b) ==
    {<<>>} \cup {<<[filename_or_obj |-> fs]>> : fs \in [1..b -> FileNames]}

\* self._data_index after one save
CountUnnamedOnly(data_index, meta_data) ==
    IF meta_data = <<>> THEN data_index + 1 ELSE data_index
NextDataIndex(data_index, meta_data) == data_index + 1

\* NiftiSaver.save(data, meta_data) on the saver st = [data_index, written]:
\* the file name prefix is chosen, the index moves on, the file is written
Save(st, meta_data) ==
    LET filename == IF meta_data # <<>> THEN meta_data[1].filename_or_obj
                    ELSE ToString(st.data_index)
    IN [data_index |-> NextDataIndex(st.data_index, meta_data),
        written |-> Append(st.written,
                           [filename |-> filename, with_meta |-> meta_data # <<>>])]

\* the loop of NiftiSaver.save_batch(batch_data, meta_data) from item i on
RECURSIVE SaveBatch(_, _, _, _)
SaveBatch(st, b, meta_data, i) ==
    IF i > b THEN st
    ELSE SaveBatch(Save(st, IF meta_data # <<>>
                            THEN <<[filename_or_obj |-> meta_data[1].filename_or_obj[i]]>>
                            ELSE <<>>),
                   b, meta_data, i + 1)

NSInit ==
    /\ ns_data_index = 0
    /\ ns_written = <<>>
    /\ ns_calls = 0
    /\ OffButNS

\* saver.save(data, meta_data)
NSSave(meta_data) ==
    /\ Len(ns_written) + 1 <= MaxSaves
    /\ LET st == Save([data_index |-> ns_data_index, written |-> ns_written], meta_data)
       IN /\ ns_data_index' = st.data_index
          /\ ns_written' = st.written
    /\ ns_calls' = ns_calls + 1
    /\ UNCHANGED NotNS

\* saver.save_batch(batch_data, meta_data) for a batch of b items
NSSaveBatch(b, meta_data) ==
    /\ Len(ns_written) + b <= MaxSaves
    /\ LET st == SaveBatch([data_index |-> ns_data_index, written |-> ns_written],
                           b, meta_data, 1)
       IN /\ ns_data_index' = st.data_index
          /\ ns_written' = st.written
    /\ ns_calls' = ns_calls + 1
    /\ UNCHANGED NotNS

NSNext ==
    \/ \E meta_data \in MetaData : NSSave(meta_data)
    \/ \E b \in 1..BatchSize : \E meta_data \in BatchMetaData(b) : NSSaveBatch(b, meta_data)

SpecNiftiSaver == NSInit /\ [][NSNext]_vars

\* number of files among the first k written that were saved without meta data
RECURSIVE UnnamedBefore(_, _)
UnnamedBefore(written, k) ==
    IF k = 0 THEN 0
    ELSE UnnamedBefore(written, k - 1) + (IF written[k].with_meta THEN 0 ELSE 1)

\* C14 as stated: on one saver the n-th save made without meta data
\* (n = 0, 1, 2, ...) is written under the file name prefix str(n), for every
\* interleaving of saves with and without meta data.
C14_Original ==
    \A k \in 1..Len(ns_written) :
        ~ns_written[k].with_meta =>
            ns_written[k].filename = ToString(UnnamedBefore(ns_written, k - 1))

\* C14: on one saver a save made without meta data is written under the file
\* name prefix str(k), k being the number of saves (with or without meta data,
\* every item of a batch counted) made on the saver before it; a save with
\* meta data is written under its filename_or_obj.
C14_RunningIndexCountsAllSaves ==
    /\ ns_data_index = Len(ns_written)
    /\ \A k \in 1..Len(ns_written) :
        /\ ~ns_written[k].with_meta => ns_written[k].filename = ToString(k - 1)
        /\ ns_written[k].with_meta => ns_written[k].filename \in FileNames

\* C14 witness: a save without meta data was made after a save with meta data
\* and after another save without meta data
C14_Witness ==
    /\ Len(ns_written) >= 3
    /\ ns_calls < Len(ns_written)
    /\ \E i, j, k \in 1..Len(ns_written) :
        /\ i < k /\ j < k
        /\ ns_written[i].with_meta
        /\ ~ns_written[j].with_meta
        /\ ~ns_written[k].with_meta

(***************************************************************************)
(* box_utils                                                               *)
(* Array entries are held in units of 1/2, so that the centre of a box     *)
(* with whole-number corners is a whole number of units.                   *)
(***************************************************************************)
MaxCoord == 1
MaxColumns == 7
MaxImageDims == 4

CORNER_CORNER_MODE == <<"xyxy", "xyzxyz">>
XXYYZZ_MODE == <<"xxyy", "xxyyzz">>
CORNER_SIZE_MODE == <<"xywh", "xyzwhd">>
CENTER_SIZE_MODE == <<"ccwh", "cccwhd">>
STANDARD_MODE == CORNER_CORNER_MODE
SUPPORTED_MODE == CORNER_CORNER_MODE \o XXYYZZ_MODE \o CORNER_SIZE_MODE \o CENTER_SIZE_MODE
TO_REMOVE == 0

\* the items of a Python list
Items(list) == {list[k] : k \in 1..Len(list)}

\* look_up_option(opt, supported): opt when it is one of supported, else
\* ValueError
LookUpOption(opt, supported) ==
    IF opt \in supported THEN [raised |-> "no", value |-> opt]
    ELSE [raised |-> "ValueError", value |-> opt]

\* int(n / 2) for n >= 0
IntHalf(n) == n \div 2
\* get_dimension(bbox, image_size, mode); an argument is <<>> for None,
\* bbox is <<bbox.shape[1]>>, image_size is <<len(image_size)>>
GetDimension(bbox, image_size, mode) ==
    LET spatial_dims_set ==
            (IF image_size # <<>> THEN {image_size[1]} ELSE {})
            \cup (IF mode # <<>> THEN {IntHalf(Len(mode[1]))} ELSE {})
            \cup (IF bbox # <<>> THEN {IntHalf(bbox[1])} ELSE {})
    IN IF Cardinality(spatial_dims_set) = 0
       THEN [raised |-> "ValueError", value |-> 0]
       ELSE IF Cardinality(spatial_dims_set) = 1
       THEN LookUpOption(CHOOSE d \in spatial_dims_set : TRUE, {2, 3})
       ELSE [raised |-> "ValueError", value |-> 0]

\* get_standard_mode(spatial_dims)
GetStandardMode(spatial_dims) ==
    IF spatial_dims = 2 THEN [raised |-> "no", value |-> STANDARD_MODE[1]]
    ELSE IF spatial_dims = 3 THEN [raised |-> "no", value |-> STANDARD_MODE[2]]
    ELSE [raised |-> "ValueError", value |-> ""]

\* box_error of check_box_mode for one row of bbox
BoxErrorFirstAxis(box, mode, spatial_dims) ==
    IF mode \in {"ccwh", "cccwhd", "xywh", "xyzwhd"} THEN box[spatial_dims + 1] < 0
    ELSE IF mode \in {"xxyy", "xxyyzz"} THEN box[2] < box[1]
    ELSE box[spatial_dims + 1] < box[1]
BoxError(box, mode, spatial_dims) ==
    IF mode \in {"ccwh", "cccwhd", "xywh", "xyzwhd"}
    THEN \E axis \in 0..(spatial_dims - 1) : box[spatial_dims + axis + 1] < 0
    ELSE IF mode \in {"xxyy", "xxyyzz"}
    THEN \E axis \in 0..(spatial_dims - 1) : box[2 * axis + 2] < box[2 * axis + 1]
    ELSE \E axis \in 0..(spatial_dims - 1) : box[spatial_dims + axis + 1] < box[axis + 1]

\* check_box_mode(bbox, mode) on the rows of bbox, cols = bbox.shape[1]
CheckBoxMode(rows, cols, mode) ==
    LET std == GetStandardMode(IntHalf(cols))
        m == IF mode = <<>> THEN std ELSE [raised |-> "no", value |-> mode[1]]
    IN IF m.raised # "no" THEN [raised |-> m.raised, value |-> FALSE]
       ELSE LET looked == LookUpOption(m.value, Items(SUPPORTED_MODE))
            IN IF looked.raised # "no" THEN [raised |-> looked.raised, value |-> FALSE]
               ELSE LET dim == GetDimension(<<cols>>, <<>>, <<m.value>>)
                    IN IF dim.raised # "no" THEN [raised |-> dim.raised, value |-> FALSE]
                       ELSE [raised |-> "no",
                             value |-> ~\E k \in 1..Len(rows) :
                                           BoxError(rows[k], m.value, dim.value)]

\* x.clamp(min=0)
ClampMin0(x) == IF x < 0 THEN 0 ELSE x

\* split_into_corners(bbox, mode) for one row: (xmin, xmax, ymin, ymax) or
\* (xmin, xmax, ymin, ymax, zmin, zmax)
SplitIntoCorners(box, mode) ==
    IF mode \in {"xxyy", "xxyyzz"} THEN box
    ELSE IF mode = "xyzxyz" THEN <<box[1], box[4], box[2], box[5], box[3], box[6]>>
    ELSE IF mode = "xyxy" THEN <<box[1], box[3], box[2], box[4]>>
    ELSE IF mode = "xyzwhd"
    THEN <<box[1], box[1] + ClampMin0(box[4] - TO_REMOVE),
           box[2], box[2] + ClampMin0(box[5] - TO_REMOVE),
           box[3], box[3] + ClampMin0(box[6] - TO_REMOVE)>>
    ELSE IF mode = "xywh"
    THEN <<box[1], box[1] + ClampMin0(box[3] - TO_REMOVE),
           box[2], box[2] + ClampMin0(box[4] - TO_REMOVE)>>
    ELSE IF mode = "cccwhd"
    THEN <<box[1] - ClampMin0((box[4] - TO_REMOVE) \div 2),
           box[1] + ClampMin0((box[4] - TO_REMOVE) \div 2),
           box[2] - ClampMin0((box[5] - TO_REMOVE) \div 2),
           box[2] + ClampMin0((box[5] - TO_REMOVE) \div 2),
           box[3] - ClampMin0((box[6] - TO_REMOVE) \div 2),
           box[3] + ClampMin0((box[6] - TO_REMOVE) \div 2)>>
    ELSE <<box[1] - ClampMin0((box[3] - TO_REMOVE) \div 2),
           box[1] + ClampMin0((box[3] - TO_REMOVE) \div 2),
           box[2] - ClampMin0((box[4] - TO_REMOVE) \div 2),
           box[2] + ClampMin0((box[4] - TO_REMOVE) \div 2)>>

\* the row that box_convert_mode concatenates for dst_mode # src_mode
ConvertRow(box, src_mode, dst_mode, spatial_dims) ==
    LET c == SplitIntoCorners(box, src_mode)
    IN IF dst_mode \in {"xxyy", "xxyyzz"} THEN c
       ELSE IF spatial_dims = 3
       THEN IF dst_mode = "xyzxyz" THEN <<c[1], c[3], c[5], c[2], c[4], c[6]>>
            ELSE IF dst_mode = "xyzwhd"
            THEN <<c[1], c[3], c[5],
                   c[2] - c[1] + TO_REMOVE, c[4] - c[3] + TO_REMOVE, c[6] - c[5] + TO_REMOVE>>
            ELSE <<(c[1] + c[2] + TO_REMOVE) \div 2, (c[3] + c[4] + TO_REMOVE) \div 2,
                   (c[5] + c[6] + TO_REMOVE) \div 2,
                   c[2] - c[1] + TO_REMOVE, c[4] - c[3] + TO_REMOVE, c[6] - c[5] + TO_REMOVE>>
       ELSE IF dst_mode = "xyxy" THEN <<c[1], c[3], c[2], c[4]>>
            ELSE IF dst_mode = "xywh"
            THEN <<c[1], c[3], c[2] - c[1] + TO_REMOVE, c[4] - c[3] + TO_REMOVE>>
            ELSE <<(c[1] + c[2] + TO_REMOVE) \div 2, (c[3] + c[4] + TO_REMOVE) \div 2,
                   c[2] - c[1] + TO_REMOVE, c[4] - c[3] + TO_REMOVE>>

\* memory: a tensor or array is [buf, cols], its rows are heap[buf]; an
\* ndarray and the tensor made from it are one buffer
\* deepcopy(t): a new buffer with the rows of t
SameBuffer(heap, t) == [heap |-> heap, buf |-> t.buf]
DeepCopy(heap, t) == [heap |-> Append(heap, heap[t.buf]), buf |-> Len(heap) + 1]
\* torch.cat(columns, dim=-1): a new buffer
Cat(heap, rows) == [heap |-> Append(heap, rows), buf |-> Len(heap) + 1]

\* box_convert_mode(bbox, src_mode, dst_mode) on the memory heap; a mode is
\* <<>> for None; out is <<>> or <<the returned array>>
BoxConvertMode(heap, bbox, src_mode, dst_mode) ==
    LET rows == heap[bbox.buf]
        failed(e) == [raised |-> e, heap |-> heap, out |-> <<>>]
        checked == CheckBoxMode(rows, bbox.cols, src_mode)
    IN IF checked.raised # "no" THEN failed(checked.raised)
       ELSE IF ~checked.value THEN failed("ValueError")
       ELSE
       \* bbox_t shares the memory of bbox
       LET bbox_t == [buf |-> bbox.buf, cols |-> bbox.cols]
           std == GetStandardMode(IntHalf(bbox.cols))
           src == IF src_mode = <<>> THEN std.value ELSE src_mode[1]
           dst == IF dst_mode = <<>> THEN std.value ELSE dst_mode[1]
           looked == LookUpOption(dst, Items(SUPPORTED_MODE))
           dim == GetDimension(<<bbox.cols>>, <<>>, <<src>>)
       IN IF looked.raised # "no" THEN failed(looked.raised)
          ELSE IF dim.raised # "no" THEN failed(dim.raised)
          ELSE IF Len(src) # Len(dst) THEN failed("ValueError")
          ELSE LET made ==
                       IF src = dst THEN DeepCopy(heap, bbox_t)
                       ELSE Cat(heap, [k \in 1..Len(rows) |->
                                          ConvertRow(rows[k], src, dst, dim.value)])
               \* bbox_dst shares the memory of bbox_t_dst
               IN [raised |-> "no", heap |-> made.heap,
                   out |-> <<[buf |-> made.buf, cols |-> bbox.cols]>>]

\* box_convert_standard_mode(bbox, mode)
BoxConvertStandardMode(heap, bbox, mode) ==
    LET failed(e) == [raised |-> e, heap |-> heap, out |-> <<>>]
        std == GetStandardMode(IntHalf(bbox.cols))
        m == IF mode = <<>> THEN std ELSE [raised |-> "no", value |-> mode[1]]
    IN IF m.raised # "no" THEN failed(m.raised)
       ELSE LET looked == LookUpOption(m.value, Items(SUPPORTED_MODE))
                dim == GetDimension(<<bbox.cols>>, <<>>, <<m.value>>)
            IN IF looked.raised # "no" THEN failed(looked.raised)
               ELSE IF dim.raised # "no" THEN failed(dim.raised)
               ELSE BoxConvertMode(heap, bbox, <<m.value>>,
                                   <<GetStandardMode(dim.value).value>>)

\* the coordinates and sizes of the boxes, in units of 1/2
Coords == {2 * v : v \in (-1)..MaxCoord}
\* one row of bbox with cols columns
Boxes(cols) == [1..cols -> Coords]
ZeroBox(cols) == [k \in 1..cols |-> 0]
\* bbox of no, one or two rows
BBoxes(cols) ==
    {<<>>} \cup {<<b>> : b \in Boxes(cols)}
           \cup {<<ZeroBox(cols), b>> : b \in Boxes(cols)}

\* a box mode argument: None or a supported mode
ModeArgs == {<<>>} \cup {<<m>> : m \in Items(SUPPORTED_MODE)}
\* the mode argument of get_dimension, which takes any string
ModeStrings == ModeArgs \cup {<<"xy">>, <<"xyxyz">>, <<"xyzwxyzw">>}

BXInit ==
    /\ \E cols \in {4, 6} :
        /\ bx_bbox = [buf |-> 1, cols |-> cols]
        /\ \E rows \in BBoxes(cols) : bx_heap = <<rows>>
    /\ bx_last = <<>>
    /\ OffButBX

\* out = box_convert_mode(bbox, src_mode, dst_mode)
BXConvertMode(src_mode, dst_mode) ==
    /\ bx_last = <<>>
    /\ LET r == BoxConvertMode(<<bx_heap[1]>>, bx_bbox, src_mode, dst_mode)
       IN /\ bx_heap' = r.heap
          /\ bx_last' = <<[op |-> "box_convert_mode", src_mode |-> src_mode,
                           dst_mode |-> dst_mode, before |-> bx_heap[1],
                           raised |-> r.raised, out |-> r.out, written |-> FALSE]>>
    /\ UNCHANGED bx_bbox
    /\ UNCHANGED NotBX

\* out = box_convert_standard_mode(bbox, mode)
BXConvertStandardMode(mode) ==
    /\ bx_last = <<>>
    /\ LET r == BoxConvertStandardMode(<<bx_heap[1]>>, bx_bbox, mode)
       IN /\ bx_heap' = r.heap
          /\ bx_last' = <<[op |-> "box_convert_standard_mode", src_mode |-> mode,
                           dst_mode |-> <<>>, before |-> bx_heap[1],
                           raised |-> r.raised, out |-> r.out, written |-> FALSE]>>
    /\ UNCHANGED bx_bbox
    /\ UNCHANGED NotBX

IsConversion(call) == call.op \in {"box_convert_mode", "box_convert_standard_mode"}
HasOutput == bx_last # <<>> /\ IsConversion(bx_last[1]) /\ bx_last[1].out # <<>>

\* out[0, 0] += 2 on the box returned by the last conversion
BXWriteOutput ==
    /\ HasOutput
    /\ ~bx_last[1].written
    /\ Len(bx_heap[bx_last[1].out[1].buf]) >= 1
    /\ LET buf == bx_last[1].out[1].buf
       IN bx_heap' = [bx_heap EXCEPT ![buf][1][1] = @ + 4]
    /\ bx_last' = <<[bx_last[1] EXCEPT !.written = TRUE]>>
    /\ UNCHANGED bx_bbox
    /\ UNCHANGED NotBX

\* the conversions of one bbox drawn by BXInit, and a write to the result
BXNext ==
    \/ \E src_mode, dst_mode \in ModeArgs : BXConvertMode(src_mode, dst_mode)
    \/ \E mode \in ModeArgs : BXConvertStandardMode(mode)
    \/ BXWriteOutput

SpecBox == BXInit /\ [][BXNext]_vars

\* get_dimension is called on shapes only: no bbox is held
GDInit == BXOff /\ OffButBX

\* get_dimension(bbox=..., image_size=..., mode=...)
GDGetDimension(bbox, image_size, mode) ==
    /\ LET r == GetDimension(bbox, image_size, mode)
       IN bx_last' = <<[op |-> "get_dimension", bbox |-> bbox, image_size |-> image_size,
                        mode |-> mode, raised |-> r.raised, value |-> r.value]>>
    /\ UNCHANGED <<bx_heap, bx_bbox>>
    /\ UNCHANGED NotBX

GDNext ==
    \E bbox \in {<<>>} \cup {<<c>> : c \in 0..MaxColumns},
       image_size \in {<<>>} \cup {<<n>> : n \in 0..MaxImageDims},
       mode \in ModeStrings : GDGetDimension(bbox, image_size, mode)

SpecGetDimension == GDInit /\ [][GDNext]_vars

\* the mode a mode argument stands for on a bbox of cols columns
EffectiveMode(mode, cols) ==
    IF mode # <<>> THEN mode[1] ELSE IF cols = 4 THEN "xyxy" ELSE "xyzxyz"

\* the columns <<min, max>> of a mode that holds two corners per axis
MinMaxColumns(mode) ==
    IF mode = "xyxy" THEN {<<1, 3>>, <<2, 4>>}
    ELSE IF mode = "xyzxyz" THEN {<<1, 4>>, <<2, 5>>, <<3, 6>>}
    ELSE IF mode = "xxyy" THEN {<<1, 2>>, <<3, 4>>}
    ELSE IF mode = "xxyyzz" THEN {<<1, 2>>, <<3, 4>>, <<5, 6>>}
    ELSE {}

\* the columns of a mode that hold a width, a height or a depth
SizeColumns(mode) ==
    IF mode \in {"xywh", "ccwh"} THEN {3, 4}
    ELSE IF mode \in {"xyzwhd", "cccwhd"} THEN {4, 5, 6}
    ELSE {}

\* a box has a negative size in a mode
NegativeSize(box, mode) ==
    \/ \E p \in MinMaxColumns(mode) : box[p[2]] < box[p[1]]
    \/ \E c \in SizeColumns(mode) : box[c] < 0

\* C15: box_convert_mode raises ValueError and returns no box when a row of
\* bbox has a negative size in src_mode (a max corner below the min corner, a
\* negative width, height or depth), and when src_mode and dst_mode are of
\* different spatial dimensions.
C15_ConvertRejectsInvalid ==
    (bx_last # <<>> /\ bx_last[1].op = "box_convert_mode") =>
        LET call == bx_last[1]
            src == EffectiveMode(call.src_mode, bx_bbox.cols)
            dst == EffectiveMode(call.dst_mode, bx_bbox.cols)
        IN ((/\ Len(src) = bx_bbox.cols
             /\ \E k \in 1..Len(call.before) : NegativeSize(call.before[k], src))
            \/ Len(src) # Len(dst)) =>
                /\ call.raised = "ValueError"
                /\ call.out = <<>>
                /\ bx_heap = <<call.before>>

\* C15 witness: a conversion from a size mode was refused because the second
\* row has a negative height while its width is not negative
C15_Witness ==
    /\ bx_last # <<>>
    /\ bx_last[1].op = "box_convert_mode"
    /\ bx_last[1].src_mode = <<"xywh">>
    /\ bx_last[1].dst_mode = <<"xyxy">>
    /\ bx_bbox.cols = 4
    /\ Len(bx_last[1].before) = 2
    /\ bx_last[1].before[2][3] >= 0
    /\ bx_last[1].before[2][4] < 0
    /\ bx_last[1].raised = "ValueError"

AgreeOn(call, d) ==
    /\ call.bbox # <<>> => call.bbox[1] = 2 * d
    /\ call.image_size # <<>> => call.image_size[1] = d
    /\ call.mode # <<>> => Len(call.mode[1]) = 2 * d

\* C16: get_dimension returns d in {2, 3} only when every supplied input
\* agrees on d (bbox of exactly 2*d columns, image_size of length d, mode of
\* 2*d letters); it raises ValueError when no input is given, when the
\* supplied inputs disagree and when the agreed dimension is not 2 or 3.
C16_DimensionNeedsAgreement ==
    (bx_last # <<>> /\ bx_last[1].op = "get_dimension") =>
        LET call == bx_last[1]
            none == call.bbox = <<>> /\ call.image_size = <<>> /\ call.mode = <<>>
            agreed == {d \in 0..MaxColumns : AgreeOn(call, d)}
        IN /\ call.raised = "no" => (call.value \in {2, 3} /\ AgreeOn(call, call.value))
           /\ none => call.raised = "ValueError"
           /\ (~none /\ agreed = {}) => call.raised = "ValueError"
           /\ (~none /\ agreed # {} /\ agreed \cap {2, 3} = {}) => call.raised = "ValueError"

(***************************************************************************)
(* RandGaussianSharpend                                                    *)
(* Sigmas are whole numbers of a unit of 0.5.                              *)
(***************************************************************************)
MaxSigma == 3
MaxCalls == 2

\* self.R.uniform(low=low, high=high): the values between the two ends
Uniform(low, high) == IF low <= high THEN low..high ELSE high..low

\* a (low, high) range of sigma1_x
SigmaRanges == {r \in (1..MaxSigma) \X (1..MaxSigma) : r[1] <= r[2]}
\* sigma2_x: a single number <<X>> or a (low, high) range
Sigma2Args == {<<X>> : X \in 1..MaxSigma} \cup SigmaRanges

\* isinstance(sigma2, Iterable)
IsIterable(sigma2) == Len(sigma2) = 2

\* sigma2_x after the test of randomize, x1 being the sigma just drawn
Sigma2Range(sigma2, x1) == IF ~IsIterable(sigma2) THEN <<sigma2[1], x1>> ELSE sigma2

\* the constructor defaults sigma1_y = (0.5, 1.0), sigma2_y = sigma2_z = 0.5
DefaultSigma1 == <<1, 2>>
DefaultSigma2 == <<1>>
\* sigma1_z = (0.5, 0.5): one value only
FixedSigma1 == <<1, 1>>

GSInit ==
    /\ \E sigma1_x \in SigmaRanges, sigma2_x \in Sigma2Args :
        gs_obj = [sigma1_x |-> sigma1_x, sigma1_y |-> DefaultSigma1, sigma1_z |-> FixedSigma1,
                  sigma2_x |-> sigma2_x, sigma2_y |-> DefaultSigma2, sigma2_z |-> DefaultSigma2,
                  do_transform |-> FALSE,
                  x1 |-> 0, y1 |-> 0, z1 |-> 0, x2 |-> 0, y2 |-> 0, z2 |-> 0]
    /\ gs_calls = 0
    /\ gs_last = <<>>
    /\ OffButGS

\* randomize(): the draws are do, x1, y1, z1, x2, y2, z2 in this order
Randomize(obj, do, x1, y1, z1, x2, y2, z2) ==
    LET sigma2_x == Sigma2Range(obj.sigma2_x, x1)
        sigma2_y == Sigma2Range(obj.sigma2_y, y1)
        sigma2_z == Sigma2Range(obj.sigma2_z, z1)
    IN [obj EXCEPT !.do_transform = do,
                   !.x1 = x1, !.y1 = y1, !.z1 = z1,
                   !.sigma2_x = sigma2_x, !.sigma2_y = sigma2_y, !.sigma2_z = sigma2_z,
                   !.x2 = x2, !.y2 = y2, !.z2 = z2]

\* the values the second-kernel sigma can be drawn from once the first-kernel
\* sigma of the call is s1
Sigma2Draws(sigma2, s1) ==
    Uniform(Sigma2Range(sigma2, s1)[1], Sigma2Range(sigma2, s1)[2])

\* the sigma2 arguments the transform was constructed with
ConstructedWith == IF gs_last = <<>> THEN [x |-> gs_obj.sigma2_x, y |-> gs_obj.sigma2_y,
                                           z |-> gs_obj.sigma2_z]
                   ELSE gs_last[1].sigma2

\* transform(data)
GSCall(do, x1, y1, z1, x2, y2, z2) ==
    /\ gs_calls < MaxCalls
    /\ gs_obj' = Randomize(gs_obj, do, x1, y1, z1, x2, y2, z2)
    /\ gs_last' = <<[sigma2 |-> ConstructedWith,
                     sigma1 |-> IF do THEN <<x1, y1, z1>> ELSE <<>>,
                     sigma2_used |-> IF do THEN <<x2, y2, z2>> ELSE <<>>]>>
    /\ gs_calls' = gs_calls + 1
    /\ UNCHANGED NotGS

GSNext ==
    \E do \in BOOLEAN :
    \E x1 \in Uniform(gs_obj.sigma1_x[1], gs_obj.sigma1_x[2]) :
    \E y1 \in Uniform(gs_obj.sigma1_y[1], gs_obj.sigma1_y[2]) :
    \E z1 \in Uniform(gs_obj.sigma1_z[1], gs_obj.sigma1_z[2]) :
    \E x2 \in Sigma2Draws(gs_obj.sigma2_x, x1) :
    \E y2 \in Sigma2Draws(gs_obj.sigma2_y, y1) :
    \E z2 \in Sigma2Draws(gs_obj.sigma2_z, z1) :
        GSCall(do, x1, y1, z1, x2, y2, z2)

SpecSharpen == GSInit /\ [][GSNext]_vars

\* C18: when sigma2_x (likewise sigma2_y, sigma2_z) was given as a single
\* number X, not above the range of sigma1_x, every call draws x2 from
\* [X, x1], x1 being the first-kernel sigma drawn in the same call, so
\* x2 <= x1 after every call and not only after the first one.
C18_Sigma2WithinSigma1 ==
    gs_last # <<>> =>
        LET given == gs_last[1].sigma2
        IN /\ (~IsIterable(given.x) /\ given.x[1] <= gs_obj.sigma1_x[1]) =>
                (given.x[1] <= gs_obj.x2 /\ gs_obj.x2 <= gs_obj.x1)
           /\ (~IsIterable(given.y) /\ given.y[1] <= gs_obj.sigma1_y[1]) =>
                (given.y[1] <= gs_obj.y2 /\ gs_obj.y2 <= gs_obj.y1)
           /\ (~IsIterable(given.z) /\ given.z[1] <= gs_obj.sigma1_z[1]) =>
                (given.z[1] <= gs_obj.z2 /\ gs_obj.z2 <= gs_obj.z1)

====
